---- MODULE Spec2Model ----
(***************************************************************************)
(* Client lifecycle, retention enforcement and the document, index,        *)
(* health and logging operations of ktranish/logs.                         *)
(*                                                                         *)
(* src/src/setup.ts holds two revisions of the setup module: the plain one *)
(* (lines 1-120) whose setupElasticsearch only creates the client, and the *)
(* Docker-aware one (lines 122-322) that probes the engine and starts it   *)
(* through Docker Compose before creating the client.  A process loads one *)
(* of them; the variable `revision` says which.                            *)
(*                                                                         *)
(* JavaScript runs callbacks to completion, so an action is the code       *)
(* between two awaits: a call suspended at an await is a value of `pc`.    *)
(***************************************************************************)
EXTENDS Integers, Sequences, FiniteSets, TLC

\* ------------------------------------------------------------------ bounds
MaxCalls == 2        \* concurrent setupElasticsearch calls
MaxWrappers == 2     \* ElasticClient wrappers constructed
MaxTicks == 1        \* clock ticks after start-up
MaxDays == 1         \* largest retention window tried
MaxDocs == 2         \* documents held by the engine at one time
MaxList == 2         \* longest index list handed to applyRetentionPolicy
DayTicks == 2        \* clock ticks in one day

NULL == 0
DefaultRetentionDays == 30   \* retentionDays: number = 30
Procs == 1..MaxCalls

\* ----------------------------------------------------------- configuration
URLs == {"http://es:9200", "https://es:9200", "not a url"}

\* ElasticsearchConfig; username/password say whether the field is present
ElasticsearchConfig ==
  [url : URLs, username : BOOLEAN, password : BOOLEAN,
   useManagedInstance : BOOLEAN]

NoConfig ==
  [url |-> "http://es:9200", username |-> FALSE, password |-> FALSE,
   useManagedInstance |-> FALSE]

Cfg(u, n, w, m) ==
  [url |-> u, username |-> n, password |-> w, useManagedInstance |-> m]

\* the configurations tried: each URL shape, each credential combination
\* and both start-up modes occur
Configs ==
  { Cfg("http://es:9200", FALSE, FALSE, FALSE),
    Cfg("http://es:9200", TRUE, TRUE, TRUE),
    Cfg("https://es:9200", TRUE, FALSE, TRUE),
    Cfg("http://es:9200", FALSE, TRUE, FALSE),
    Cfg("not a url", FALSE, FALSE, TRUE),
    Cfg("not a url", TRUE, TRUE, FALSE) }

\* new URL(node) inside the engine client's constructor throws on these
MalformedURL(url) == url = "not a url"

\* config.url.startsWith("https")
StartsWithHttps(url) == url = "https://es:9200"

\* ElasticClient(node, options): node is a host, options give the scheme
Nodes == {"es:9200", ""}
NoWrapperOptions ==
  [apiKey |-> FALSE, username |-> FALSE, password |-> FALSE, ssl |-> FALSE]
WrapperOptions ==
  { NoWrapperOptions,
    [apiKey |-> TRUE,  username |-> TRUE,  password |-> TRUE,  ssl |-> TRUE] }

VARIABLES
  revision,       \* "plain" or "docker": which setup.ts is loaded
  elasticClient,  \* the module-level handle: NULL or a client id
  clients,        \* every engine client constructed so far, by id
  calls,          \* the setupElasticsearch calls in flight: pc and config
  wrappers,       \* ElasticClient wrappers: the client each one owns
  instances,      \* clients held by Logs / Query / RetentionPolicy objects
  engineUp,       \* the local engine answers requests
  last,           \* the operation that finished last and its outcome; a
                  \* retention call clears it when it is made
  setupSucceeded, \* some setupElasticsearch call has returned a client
  failedUnset,    \* some setupElasticsearch call threw while the handle was unset
  clock,          \* the wall clock, in ticks
  docs,           \* the engine's documents, by index
  ret,            \* the retention call in flight
  existing        \* the indices that exist in the engine

vars == <<revision, elasticClient, clients, calls, wrappers, instances,
          engineUp, last, setupSucceeded, failedUnset, clock, docs, ret,
          existing>>

engineVars == <<clock, docs, ret, existing>>

\* everything but the engine, the clock and the latest outcome
clientVars == <<revision, elasticClient, clients, calls, wrappers,
                instances, engineUp, setupSucceeded, failedUnset>>

\* an Error object: its message, in the parts the template literal joins,
\* and its cause; NoError when nothing was thrown
NoError == [message |-> <<>>, cause |-> "none"]

\* what an engine call resolved with; NoResponse when it did not
NoResponse == [hits |-> {}, count |-> 0, exists |-> FALSE, status |-> "none",
               id |-> 0]

\* `later`: the call was made after some call had already succeeded
\* `probe`: what the health probe of the call returned, "none" before it
IdleCall == [pc |-> "idle", config |-> NoConfig, later |-> FALSE,
             probe |-> "none"]

\* the start-up phase a setupElasticsearch call went through: what its
\* health probe returned and how its start of the local engine ended,
\* "none" for a step the call did not take
Startup(probe, start) == [probe |-> probe, start |-> start]

\* the body of a write; NoBody when the operation wrote nothing
NoBody == [level |-> "", message |-> "", metadata |-> "",
           timestamp |-> [date |-> 0, time |-> 0]]

NoOp == [op |-> "none", out |-> "none", err |-> "none", ret |-> NULL,
         config |-> NoConfig, later |-> FALSE,
         indices |-> <<>>, days |-> 0, given |-> TRUE, callTime |-> 0,
         repeat |-> "no", console |-> <<>>, result |-> <<>>,
         requests |-> <<>>, error |-> NoError, response |-> NoResponse,
         environment |-> "", query |-> "", body |-> NoBody,
         startup |-> Startup("none", "none")]

Returned(op, value) ==
  [NoOp EXCEPT !.op = op, !.out = "returned", !.ret = value]
Threw(op, err) == [NoOp EXCEPT !.op = op, !.out = "threw", !.err = err]

\* ------------------------------------------------------------ setup.ts
\* new Client({node, auth, tls}) as written in initializeClient
ClientOptions(config) ==
  [node |-> config.url,
   auth |-> IF config.username /\ config.password THEN "basic" ELSE "none",
   tls  |-> StartsWithHttps(config.url)]

\* initializeClient assigning the handle before the client's options are
\* validated, so that a failed construction leaves it behind
initializeClientKeepsPartial(ec, cl, config) ==
  IF ec = NULL
    THEN IF MalformedURL(config.url)
           THEN [elasticClient |-> Len(cl) + 1,
                 clients |-> Append(cl, ClientOptions(config)),
                 ret |-> NULL, err |-> "InitializationFailed"]
           ELSE [elasticClient |-> Len(cl) + 1,
                 clients |-> Append(cl, ClientOptions(config)),
                 ret |-> Len(cl) + 1, err |-> "none"]
    ELSE [elasticClient |-> ec, clients |-> cl, ret |-> ec, err |-> "none"]

\* initializeClient without the `if (!elasticClient)` test
initializeClientUnguarded(ec, cl, config) ==
  IF MalformedURL(config.url)
    THEN [elasticClient |-> ec, clients |-> cl,
          ret |-> NULL, err |-> "InitializationFailed"]
    ELSE [elasticClient |-> Len(cl) + 1,
          clients |-> Append(cl, ClientOptions(config)),
          ret |-> Len(cl) + 1, err |-> "none"]

\* initializeClient(config): the new handle, the clients constructed, and
\* what the call returns or throws
initializeClient(ec, cl, config) ==
  IF ec = NULL
    THEN IF MalformedURL(config.url)
           THEN [elasticClient |-> ec, clients |-> cl,
                 ret |-> NULL, err |-> "InitializationFailed"]
           ELSE [elasticClient |-> Len(cl) + 1,
                 clients |-> Append(cl, ClientOptions(config)),
                 ret |-> Len(cl) + 1, err |-> "none"]
    ELSE [elasticClient |-> ec, clients |-> cl, ret |-> ec, err |-> "none"]

\* getClient falling back to a client made with defaults
getClientDefaults(ec) ==
  IF ec = NULL THEN [ret |-> 1, err |-> "none"]
               ELSE [ret |-> ec, err |-> "none"]

\* getClient handing out the handle without looking at it
getClientUnchecked(ec) == [ret |-> ec, err |-> "none"]

\* getClient(): the handle, or the "not initialized" error
getClient(ec) ==
  IF ec = NULL THEN [ret |-> NULL, err |-> "NotInitialized"]
               ELSE [ret |-> ec, err |-> "none"]

\* the tail of setupElasticsearch: return initializeClient(config)
Finish(p, config, later, startup) ==
  LET r == initializeClient(elasticClient, clients, config) IN
  /\ elasticClient' = r.elasticClient
  /\ clients' = r.clients
  /\ calls' = [calls EXCEPT ![p] = IdleCall]
  /\ last' = [NoOp EXCEPT !.op = "setupElasticsearch",
                !.out = IF r.err = "none" THEN "returned" ELSE "threw",
                !.err = r.err, !.ret = r.ret, !.config = config,
                !.later = later, !.startup = startup]
  /\ setupSucceeded' = (setupSucceeded \/ r.err = "none")
  /\ failedUnset' = (failedUnset \/ (r.err # "none" /\ elasticClient = NULL))

\* a call that throws before reaching initializeClient
Throw(p, e) ==
  /\ calls' = [calls EXCEPT ![p] = IdleCall]
  /\ last' = [NoOp EXCEPT !.op = "setupElasticsearch", !.out = "threw",
                !.err = e, !.config = calls[p].config,
                !.later = calls[p].later,
                !.startup = Startup(calls[p].probe, "failed")]
  /\ failedUnset' = (failedUnset \/ elasticClient = NULL)
  /\ UNCHANGED <<elasticClient, clients, setupSucceeded>>

\* plain revision: setupElasticsearch(config) has no await
setupElasticsearch(p, config) ==
  /\ revision = "plain"
  /\ calls[p].pc = "idle"
  /\ Finish(p, config, setupSucceeded, Startup("none", "none"))
  /\ UNCHANGED <<revision, wrappers, instances, engineUp>>
  /\ UNCHANGED engineVars

\* Docker-aware revision: managed mode goes straight to initializeClient,
\* otherwise the call suspends in the health probe
setupElasticsearchDocker(p, config) ==
  /\ revision = "docker"
  /\ calls[p].pc = "idle"
  /\ IF config.useManagedInstance
       THEN Finish(p, config, setupSucceeded, Startup("none", "none"))
       ELSE /\ calls' = [calls EXCEPT ![p] =
                           [pc |-> "probing", config |-> config,
                            later |-> setupSucceeded, probe |-> "none"]]
            /\ UNCHANGED <<elasticClient, clients, last, setupSucceeded,
                           failedUnset>>
  /\ UNCHANGED <<revision, wrappers, instances, engineUp>>
  /\ UNCHANGED engineVars

\* a setupElasticsearch that starts the local engine whatever the probe
\* returned
isElasticsearchRunningIgnored(p) ==
  /\ calls[p].pc = "probing"
  /\ \E running \in BOOLEAN :
       /\ running => (engineUp /\ ~MalformedURL(calls[p].config.url))
       /\ calls' = [calls EXCEPT ![p].pc = "ensureDocker",
                                 ![p].probe = IF running THEN "running"
                                                         ELSE "notRunning"]
       /\ UNCHANGED <<elasticClient, clients, last, setupSucceeded,
                      failedUnset>>
  /\ UNCHANGED <<revision, wrappers, instances, engineUp>>
  /\ UNCHANGED engineVars

\* isElasticsearchRunning(url) resolves: true only on an ok response
isElasticsearchRunning(p) ==
  /\ calls[p].pc = "probing"
  /\ \E running \in BOOLEAN :
       /\ running => (engineUp /\ ~MalformedURL(calls[p].config.url))
       /\ IF running
            THEN Finish(p, calls[p].config, calls[p].later,
                        Startup("running", "none"))
            ELSE /\ calls' = [calls EXCEPT ![p].pc = "ensureDocker",
                                           ![p].probe = "notRunning"]
                 /\ UNCHANGED <<elasticClient, clients, last,
                                setupSucceeded, failedUnset>>
  /\ UNCHANGED <<revision, wrappers, instances, engineUp>>
  /\ UNCHANGED engineVars

\* ensureDocker(): docker --version
ensureDocker(p) ==
  /\ calls[p].pc = "ensureDocker"
  /\ \E installed \in BOOLEAN :
       IF installed
         THEN /\ calls' = [calls EXCEPT ![p].pc = "composeUp"]
              /\ UNCHANGED <<elasticClient, clients, last, setupSucceeded,
                             failedUnset>>
         ELSE Throw(p, "DockerRequired")
  /\ UNCHANGED <<revision, wrappers, instances, engineUp>>
  /\ UNCHANGED engineVars

\* startElasticsearch(): docker-compose up -d, then back in
\* setupElasticsearch the client is initialized
startElasticsearch(p) ==
  /\ calls[p].pc = "composeUp"
  /\ \E started \in BOOLEAN :
       IF started
         THEN /\ engineUp' = TRUE
              /\ Finish(p, calls[p].config, calls[p].later,
                        Startup(calls[p].probe, "started"))
         ELSE /\ Throw(p, "ComposeFailed")
              /\ UNCHANGED engineUp
  /\ UNCHANGED <<revision, wrappers, instances>>
  /\ UNCHANGED engineVars

\* stopElasticsearch also dropping the handle
stopElasticsearchClears ==
  /\ revision = "docker"
  /\ engineUp' = FALSE
  /\ elasticClient' = NULL
  /\ last' = Returned("stopElasticsearch", NULL)
  /\ UNCHANGED <<revision, clients, calls, wrappers, instances,
                 setupSucceeded, failedUnset>>
  /\ UNCHANGED engineVars

\* stopElasticsearch(): docker-compose down, or it throws
stopElasticsearch ==
  /\ revision = "docker"
  /\ \E stopped \in BOOLEAN :
       /\ engineUp' = (engineUp /\ ~stopped)
       /\ last' = IF stopped THEN Returned("stopElasticsearch", NULL)
                             ELSE Threw("stopElasticsearch", "ComposeFailed")
  /\ UNCHANGED <<revision, elasticClient, clients, calls, wrappers,
                 instances, setupSucceeded, failedUnset>>
  /\ UNCHANGED engineVars

\* a caller invokes getClient()
GetClient ==
  /\ LET r == getClient(elasticClient) IN
       last' = [NoOp EXCEPT !.op = "getClient", !.ret = r.ret, !.err = r.err,
                            !.out = IF r.err = "none" THEN "returned"
                                                      ELSE "threw"]
  /\ UNCHANGED <<revision, elasticClient, clients, calls, wrappers,
                 instances, engineUp, setupSucceeded, failedUnset>>
  /\ UNCHANGED engineVars

\* ------------------------------------------------- client.ts (part_005)
\* the options ElasticClient's constructor passes to new Client
WrapperClientOptions(node, options) ==
  [node |-> IF options.ssl THEN "https://" \o node ELSE "http://" \o node,
   auth |-> IF options.apiKey THEN "apiKey"
            ELSE IF options.username /\ options.password THEN "basic"
            ELSE "none"]

\* new URL("http://") throws: the host is empty
MalformedNode(node) == node = ""

\* new ElasticClient(node, options): every wrapper constructs its own client
ElasticClient(node, options) ==
  /\ Len(wrappers) < MaxWrappers
  /\ IF MalformedNode(node)
       THEN /\ last' = Threw("ElasticClient", "InitializationFailed")
            /\ UNCHANGED <<clients, wrappers>>
       ELSE /\ clients' = Append(clients, WrapperClientOptions(node, options))
            /\ wrappers' = Append(wrappers, Len(clients) + 1)
            /\ last' = Returned("ElasticClient", Len(clients) + 1)
  /\ UNCHANGED <<revision, elasticClient, calls, instances, engineUp,
                 setupSucceeded, failedUnset>>
  /\ UNCHANGED engineVars

\* new Logs(index) / new Query(index): this.client = getClient()
Logs ==
  /\ LET r == getClient(elasticClient) IN
       IF r.err = "none"
         THEN /\ instances' = instances \cup {r.ret}
              /\ last' = Returned("Logs", r.ret)
         ELSE /\ last' = Threw("Logs", r.err)
              /\ UNCHANGED instances
  /\ UNCHANGED <<revision, elasticClient, clients, calls, wrappers,
                 engineUp, setupSucceeded, failedUnset>>
  /\ UNCHANGED engineVars

\* new RetentionPolicy(client): this.client = client.getInstance()
RetentionPolicy(w) ==
  /\ w \in 1..Len(wrappers)
  /\ instances' = instances \cup {wrappers[w]}
  /\ last' = Returned("RetentionPolicy", wrappers[w])
  /\ UNCHANGED <<revision, elasticClient, clients, calls, wrappers,
                 engineUp, setupSucceeded, failedUnset>>
  /\ UNCHANGED engineVars

\* ------------------------------------------------------------ the engine
Indices == {"A", "B"}
\* new Logger("system-logs"): the index SystemLogger writes to
SystemLogs == "system-logs"
AllIndices == Indices \cup {SystemLogs}
IndexLists == UNION {[1..n -> Indices] : n \in 0..MaxList}
\* the windows tried: a negative one, the small ones and the default
Days == ((-1)..MaxDays) \cup {DefaultRetentionDays}
\* the arguments given for the window: none, or a number of days
DaysArgs == {<<>>} \cup {<<d>> : d \in Days}
\* the process starts a tick after day DefaultRetentionDays of the engine
StartClock == DefaultRetentionDays * DayTicks + 1
\* when the documents already stored were written: before and at the
\* default window's cutoff, at the one-day cutoff, and now
StoredTimes == {0, 1, StartClock - DayTicks, StartClock}

\* Date.prototype.toISOString(): the date and the time of day, in UTC
toISOString(t) == [date |-> t \div DayTicks, time |-> t % DayTicks]

\* the engine reads a date field back into an instant
ParseDate(iso) == iso.date * DayTicks + iso.time

\* new Date() remembered from the previous enforceRetention call
newDateCached ==
  IF last.op = "enforceRetention" THEN last.callTime ELSE clock

\* new Date(): the clock when the call is made
newDate == clock

\* a default window of no days
retentionDaysNoDefault(args) == IF args = <<>> THEN 0 ELSE args[1]

\* retentionDays: number = 30, the default parameter of applyRetentionPolicy
retentionDaysDefault(args) ==
  IF args = <<>> THEN DefaultRetentionDays ELSE args[1]

\* setDate with the window added instead of subtracted
setDatePlus(t, days) == t + days * DayTicks

\* timestamp.setDate(timestamp.getDate() - days)
setDate(t, days) == t - days * DayTicks

TotalDocs == Cardinality(UNION {docs[i] : i \in AllIndices})
UsedIds == {d.id : d \in UNION {docs[i] : i \in AllIndices}}
FreshId == CHOOSE n \in 1..MaxDocs :
             n \notin UsedIds /\ \A m \in 1..(n - 1) : m \in UsedIds

\* the range query matching the cutoff itself as well
RangeLte(ds, lt) == {d \in ds : ParseDate(d.timestamp) <= ParseDate(lt)}

\* the documents a range query { timestamp: { lt } } selects
RangeLt(ds, lt) == {d \in ds : ParseDate(d.timestamp) < ParseDate(lt)}

\* the request without conflicts: "proceed": the engine's default aborts
DeleteByQueryRequestAborts(index, timestamp) ==
  [index |-> index, lt |-> toISOString(timestamp), conflicts |-> "abort"]

\* the deleteByQuery request both retention functions build
DeleteByQueryRequest(index, timestamp) ==
  [index |-> index, lt |-> toISOString(timestamp), conflicts |-> "proceed"]

\* the engine executes a delete-by-query; `conflicted` are the selected
\* documents a concurrent writer has changed under it
deleteByQuery(ds, request, conflicted) ==
  IF request.conflicts = "proceed"
    THEN [failed |-> FALSE,
          docs |-> ds \ (RangeLt(ds, request.lt) \ conflicted),
          deleted |-> Cardinality(RangeLt(ds, request.lt) \ conflicted),
          version_conflicts |-> Cardinality(conflicted),
          conflicts |-> conflicted # {}]
    ELSE [failed |-> conflicted # {},
          docs |-> IF conflicted # {} THEN ds
                   ELSE ds \ RangeLt(ds, request.lt),
          deleted |-> IF conflicted # {} THEN 0
                      ELSE Cardinality(RangeLt(ds, request.lt)),
          version_conflicts |-> Cardinality(conflicted),
          conflicts |-> conflicted # {}]

NoRet == [op |-> "none", indices |-> <<>>, i |-> 0, days |-> 0,
          given |-> TRUE, callTime |-> 0, timestamp |-> 0, repeat |-> "no",
          console |-> <<>>]

\* the clock advances
Tick ==
  /\ clock < StartClock + MaxTicks
  /\ clock' = clock + 1
  /\ UNCHANGED <<revision, elasticClient, clients, calls, wrappers,
                 instances, engineUp, last, setupSucceeded, failedUnset,
                 docs, ret, existing>>

\* ------------------------------------------------------------- logs.ts
\* an index of the engine, with its settings
Index(index, shards, replicas) ==
  [index |-> index, shards |-> shards, replicas |-> replicas]

\* the engine's defaults for an index created without settings
DefaultIndex(index) == Index(index, 1, 1)

Exists(index) == \E e \in existing : e.index = index

\* one engine request an operation has issued, and whether it failed
Request(api, index, failed) ==
  [api |-> api, index |-> index, failed |-> failed]

\* an operation that issues its engine call again when it has failed
AttemptsRetried(api, index, failed) ==
  IF failed THEN <<Request(api, index, TRUE), Request(api, index, TRUE)>>
            ELSE <<Request(api, index, FALSE)>>

\* the engine calls of one operation: the single awaited call in its try
Attempts(api, index, failed) == <<Request(api, index, failed)>>

\* catch blocks whose Error carries one fixed text
ErrorMessageFixed(err, target) == <<"Operation failed.">>

\* the text of the Error each catch block throws; target is the index
\* name or document id the template literal interpolates, if any
ErrorMessage(err, target) ==
  CASE err = "LoggingFailed" ->
         <<"Logging failed. Check Elasticsearch connection.">>
    [] err = "SearchFailed" ->
         <<"Search query failed. Verify the query syntax and index availability.">>
    [] err = "CountFailed" -> <<"Failed to execute count query.">>
    [] err = "AddDocumentFailed" ->
         <<"Failed to add document. Check the index or payload.">>
    [] err = "UpdateDocumentFailed" ->
         <<"Error updating document ", target, ".">>
    [] err = "DeleteDocumentFailed" ->
         <<"Error deleting document ", target, ".">>
    [] err = "IndexExistsFailed" -> <<"Error checking index existence.">>
    [] err = "CreateIndexFailed" -> <<"Error creating index.">>
    [] err = "DeleteIndexFailed" -> <<"Error deleting index.">>
    [] err = "BulkFailed" ->
         <<"Bulk operation failed. Check the operations and index.">>
    [] err = "RetentionFailed" ->
         <<"Retention policy enforcement failed for index \"", target, "\".">>
    [] err = "CreateOptimizedIndexFailed" ->
         <<"Error creating index \"", target, "\".">>
    [] err = "ManagerDeleteIndexFailed" ->
         <<"Error deleting index \"", target, "\".">>
    [] err = "QuerySearchFailed" ->
         <<"Failed to execute search query. Check the query syntax or index availability.">>
    [] err = "HealthFailed" ->
         <<"Unable to retrieve Elasticsearch cluster health.">>
    [] err = "ApiKeyFailed" ->
         <<"API Key validation failed. Please check your credentials.">>
    [] OTHER -> <<>>

\* throw new Error(message): the caught engine error is logged to the
\* console and not handed to the new Error
NewError(message) == [message |-> message, cause |-> "none"]

\* the operation's engine call resolved and the operation returns
Resolves(op, index, api, response) ==
  [Returned(op, NULL) EXCEPT !.indices = <<index>>,
                             !.requests = Attempts(api, index, FALSE),
                             !.response = response]

\* the operation's engine call failed and its catch block throws
Rejects(op, index, api, err, target) ==
  [Threw(op, err) EXCEPT !.indices = <<index>>,
                         !.requests = Attempts(api, index, TRUE),
                         !.error = NewError(ErrorMessage(err, target))]

\* a Logs object exists: it was constructed from the process-wide handle
HasLogs == elasticClient # NULL /\ elasticClient \in instances

\* an object constructed from an ElasticClient wrapper exists
HasWrapped == \E w \in 1..Len(wrappers) : wrappers[w] \in instances

\* a log body that leaves the metadata out
LogBodyWithoutMetadata(level, message, metadata, t) ==
  [level |-> level, message |-> message, metadata |-> "",
   timestamp |-> toISOString(t)]

\* the body { level, message, metadata, timestamp } that log sends
LogBody(level, message, metadata, t) ==
  [level |-> level, message |-> message, metadata |-> metadata,
   timestamp |-> toISOString(t)]

\* a document that has a timestamp and none of the fields of a log record
PlainBody(t) == LogBody("", "", "", t)

\* the document the engine stores for a body, under the id it gives it
Document(id, body) ==
  [id |-> id, timestamp |-> body.timestamp, level |-> body.level,
   message |-> body.message, metadata |-> body.metadata]

\* metadata: Record<string, any> = {}
NoMetadata == "{}"

\* the records logged: the one of the scenario and one without metadata
Entries ==
  {[level |-> "error", message |-> "Failed to process request",
    metadata |-> "{requestId}"],
   [level |-> "info", message |-> "started", metadata |-> NoMetadata]}

\* client.index(): the engine stores the document, creating the index
\* when it is missing, or fails
IndexDocument(op, err, index, body) ==
  /\ TotalDocs < MaxDocs
  /\ \E failed \in BOOLEAN :
       IF failed
         THEN /\ last' = Rejects(op, index, "index", err, index)
              /\ UNCHANGED <<docs, existing>>
         ELSE /\ docs' = [docs EXCEPT ![index] = @ \cup
                   {Document(FreshId, body)}]
              /\ existing' = IF Exists(index) THEN existing
                             ELSE existing \cup {DefaultIndex(index)}
              /\ last' = [Resolves(op, index, "index",
                                   [NoResponse EXCEPT !.id = FreshId])
                            EXCEPT !.body = body]
  /\ UNCHANGED <<clientVars, clock, ret>>

\* Logs.log(level, message, metadata): index a record stamped with now
log(index, level, message, metadata) ==
  /\ HasLogs
  /\ IndexDocument("log", "LoggingFailed", index,
                   LogBody(level, message, metadata, newDate))

\* Logs.addDocument(document): index the document as given, with the
\* timestamp t the caller put in it
addDocument(index, t) ==
  /\ HasLogs
  /\ IndexDocument("addDocument", "AddDocumentFailed", index, PlainBody(t))

\* an engine call that reads: it fails when the engine does or when
\* `missing` says that what it addresses is not there
Reads(op, err, index, api, target, missing, response) ==
  /\ \E down \in BOOLEAN :
       last' = IF down \/ missing
                 THEN Rejects(op, index, api, err, target)
                 ELSE Resolves(op, index, api, response)
  /\ UNCHANGED <<clientVars, clock, docs, ret, existing>>

\* Logs.search(query), for a query that matches every document
search(index) ==
  /\ HasLogs
  /\ Reads("search", "SearchFailed", index, "search", index,
           ~Exists(index), [NoResponse EXCEPT !.hits = docs[index]])

\* the queries tried: match_all, and match on a level
MatchAll == "*"
Queries == {MatchAll} \cup {e.level : e \in Entries}

\* the documents of ds a query matches
Matching(ds, query) ==
  IF query = MatchAll THEN ds ELSE {d \in ds : d.level = query}

\* Logs.count(query)
count(index, query) ==
  /\ HasLogs
  /\ \E down \in BOOLEAN :
       last' = IF down \/ ~Exists(index)
                 THEN Rejects("count", index, "count", "CountFailed", index)
                 ELSE [Resolves("count", index, "count",
                         [NoResponse EXCEPT !.count =
                            Cardinality(Matching(docs[index], query))])
                        EXCEPT !.query = query]
  /\ UNCHANGED <<clientVars, clock, docs, ret, existing>>

\* Logs.updateDocument(id, partialDoc), for a partial document that
\* leaves the timestamp alone
updateDocument(index, id) ==
  /\ HasLogs
  /\ Reads("updateDocument", "UpdateDocumentFailed", index, "update",
           ToString(id),
           id \notin {d.id : d \in docs[index]}, NoResponse)

\* a deleteDocument whose delete is acknowledged while the document stays
deleteDocumentKeeps(index, id) ==
  /\ HasLogs
  /\ \E down \in BOOLEAN :
       last' = IF down \/ id \notin {d.id : d \in docs[index]}
                 THEN Rejects("deleteDocument", index, "delete",
                              "DeleteDocumentFailed", ToString(id))
                 ELSE Resolves("deleteDocument", index, "delete",
                               [NoResponse EXCEPT !.id = id])
  /\ UNCHANGED <<clientVars, clock, docs, ret, existing>>

\* Logs.deleteDocument(id)
deleteDocument(index, id) ==
  /\ HasLogs
  /\ \E down \in BOOLEAN :
       IF down \/ id \notin {d.id : d \in docs[index]}
         THEN /\ last' = Rejects("deleteDocument", index, "delete",
                                 "DeleteDocumentFailed", ToString(id))
              /\ UNCHANGED docs
         ELSE /\ docs' = [docs EXCEPT ![index] = {d \in @ : d.id # id}]
              /\ last' = Resolves("deleteDocument", index, "delete",
                                  [NoResponse EXCEPT !.id = id])
  /\ UNCHANGED <<clientVars, clock, ret, existing>>

\* an indexExists that returns the body member of the engine's answer,
\* which the boolean answer does not have
indexExistsBody(index) ==
  /\ HasLogs
  /\ Reads("indexExists", "IndexExistsFailed", index, "indices.exists",
           index, FALSE, NoResponse)

\* Logs.indexExists(): a missing index is an answer, not a failure
indexExists(index) ==
  /\ HasLogs
  /\ Reads("indexExists", "IndexExistsFailed", index, "indices.exists",
           index, FALSE, [NoResponse EXCEPT !.exists = Exists(index)])

\* indices.create: fails when the index exists already
CreatesIndex(op, err, index, shards, replicas) ==
  /\ \E down \in BOOLEAN :
       IF down \/ Exists(index)
         THEN /\ last' = Rejects(op, index, "indices.create", err, index)
              /\ UNCHANGED existing
         ELSE /\ existing' = existing \cup {Index(index, shards, replicas)}
              /\ last' = Resolves(op, index, "indices.create", NoResponse)
  /\ UNCHANGED <<clientVars, clock, docs, ret>>

\* indices.delete: fails when the index is missing; the documents of the
\* index go with it
DeletesIndex(op, err, index) ==
  /\ \E down \in BOOLEAN :
       IF down \/ ~Exists(index)
         THEN /\ last' = Rejects(op, index, "indices.delete", err, index)
              /\ UNCHANGED <<docs, existing>>
         ELSE /\ existing' = {e \in existing : e.index # index}
              /\ docs' = [docs EXCEPT ![index] = {}]
              /\ last' = Resolves(op, index, "indices.delete", NoResponse)
  /\ UNCHANGED <<clientVars, clock, ret>>

\* Logs.createIndex(settings = {}): the engine's default settings
createIndex(index) ==
  /\ HasLogs
  /\ CreatesIndex("createIndex", "CreateIndexFailed", index, 1, 1)

\* Logs.deleteIndex()
deleteIndex(index) ==
  /\ HasLogs
  /\ DeletesIndex("deleteIndex", "DeleteIndexFailed", index)

\* the bulk bodies tried: nothing, or the deletion of one document
BulkOperations == {{}} \cup {{id} : id \in 1..MaxDocs}

\* Logs.bulk(operations): the engine deletes the documents named that it
\* finds; one it does not find is an item error inside a response that
\* resolves
bulk(index, operations) ==
  /\ HasLogs
  /\ \E down \in BOOLEAN :
       IF down
         THEN /\ last' = Rejects("bulk", index, "bulk", "BulkFailed", index)
              /\ UNCHANGED docs
         ELSE /\ docs' = [docs EXCEPT
                            ![index] = {d \in @ : d.id \notin operations}]
              /\ last' = Resolves("bulk", index, "bulk", NoResponse)
  /\ UNCHANGED <<clientVars, clock, ret, existing>>

\* ------------------------------------- validateApiKey.ts, part_003/004
\* the own keys of defaultConfig.indexSettings
Environments == {"development", "staging", "production"}

\* a key the object literal inherits from Object.prototype: the property
\* read finds a function, which is truthy and has no shards or replicas
InheritedKeys == {"constructor"}

\* the environments tried: the three presets, an inherited key and a key
\* the object does not have at all
EnvironmentKeys == Environments \cup InheritedKeys \cup {"test"}

\* what reading a property that is not there yields
Undefined == -1

\* defaultConfig.indexSettings[environment]
indexSettings(environment) ==
  CASE environment = "development" -> [shards |-> 1, replicas |-> 0]
    [] environment = "staging"     -> [shards |-> 2, replicas |-> 1]
    [] environment = "production"  -> [shards |-> 3, replicas |-> 2]
    [] OTHER -> [shards |-> Undefined, replicas |-> Undefined]

\* !defaultConfig.indexSettings[environment]
Falsy(environment) == environment \notin Environments \cup InheritedKeys

\* a setting sent as undefined is left out of the request body and the
\* engine applies its default
SettingOr(value, default) == IF value = Undefined THEN default ELSE value

\* IndexManager.createOptimizedIndex(indexName, environment): an
\* environment whose lookup is falsy throws before anything is sent
createOptimizedIndex(indexName, environment) ==
  /\ HasWrapped
  /\ IF Falsy(environment)
       THEN /\ last' = [Threw("createOptimizedIndex", "InvalidEnvironment")
                          EXCEPT !.indices = <<indexName>>,
                                 !.environment = environment,
                                 !.error = NewError(
                                   <<"Invalid environment \"", environment,
                                     "\". Expected one of: ",
                                     "development, staging, production">>)]
            /\ UNCHANGED <<clientVars, clock, docs, ret, existing>>
       ELSE /\ \E down \in BOOLEAN :
                 IF down \/ Exists(indexName)
                   THEN /\ last' = [Rejects("createOptimizedIndex",
                                       indexName, "indices.create",
                                       "CreateOptimizedIndexFailed",
                                       indexName)
                                      EXCEPT !.environment = environment]
                        /\ UNCHANGED existing
                   ELSE /\ existing' = existing \cup
                             {Index(indexName,
                                SettingOr(indexSettings(environment).shards,
                                          DefaultIndex(indexName).shards),
                                SettingOr(indexSettings(environment).replicas,
                                          DefaultIndex(indexName).replicas))}
                        /\ last' = [Resolves("createOptimizedIndex",
                                       indexName, "indices.create",
                                       NoResponse)
                                      EXCEPT !.environment = environment]
            /\ UNCHANGED <<clientVars, clock, docs, ret>>

\* IndexManager.deleteIndex(indexName)
IndexManagerDeleteIndex(indexName) ==
  /\ HasWrapped
  /\ DeletesIndex("IndexManager.deleteIndex", "ManagerDeleteIndexFailed",
                  indexName)

\* Query.search(query), for a query that matches every document
QuerySearch(index) ==
  /\ HasWrapped
  /\ Reads("Query.search", "QuerySearchFailed", index, "search", index,
           ~Exists(index), [NoResponse EXCEPT !.hits = docs[index]])

\* ClusterHealth.getHealth(): the status the engine reports
getHealth ==
  /\ HasWrapped \/ elasticClient # NULL
  /\ \E status \in {"green", "yellow", "red"} :
       Reads("getHealth", "HealthFailed", "", "cluster.health", "", FALSE,
             [NoResponse EXCEPT !.status = status])

\* validateApiKey(client): whether the engine lists any API key
validateApiKey ==
  /\ Len(wrappers) > 0
  /\ \E keys \in BOOLEAN :
       Reads("validateApiKey", "ApiKeyFailed", "", "security.getApiKey", "",
             FALSE, [NoResponse EXCEPT !.exists = keys])

\* SystemLogger.handleLogError(error, message): writes to the console and
\* returns
handleLogError(inner) == [inner EXCEPT !.out = "returned", !.err = "none",
                                       !.error = NoError]

\* the log call of SystemLogger's logger, new Logger("system-logs"), and
\* the catch block around it
SystemLog(op, message, metadata) ==
  /\ HasLogs
  /\ TotalDocs < MaxDocs
  /\ \E failed \in BOOLEAN :
       IF failed
         THEN /\ last' = [handleLogError(
                            Rejects("log", SystemLogs, "index",
                                    "LoggingFailed", SystemLogs))
                            EXCEPT !.op = op]
              /\ UNCHANGED <<docs, existing>>
         ELSE /\ docs' = [docs EXCEPT ![SystemLogs] = @ \cup
                   {Document(FreshId,
                             LogBody("info", message, metadata, newDate))}]
              /\ existing' = IF Exists(SystemLogs) THEN existing
                             ELSE existing \cup {DefaultIndex(SystemLogs)}
              /\ last' = Resolves(op, SystemLogs, "index", NoResponse)
  /\ UNCHANGED <<clientVars, clock, ret>>

\* SystemLogger.logHealthCheck(status)
logHealthCheck ==
  SystemLog("logHealthCheck", "Cluster health check", "{status}")

\* SystemLogger.logRetentionRun(index, deleted)
logRetentionRun ==
  SystemLog("logRetentionRun", "Retention policy run", "{index, deleted}")

\* ----------------------------------------- retentionPolicy.ts, setup.ts
\* what the engine answers to the request in flight: it fails, or it
\* deletes the selected documents it finds unchanged
EngineAnswers(index, timestamp) ==
  {[failed |-> TRUE, docs |-> docs[index], deleted |-> 0,
    version_conflicts |-> 0, conflicts |-> FALSE]}
  \cup
  IF Exists(index)
    THEN { deleteByQuery(docs[index],
                         DeleteByQueryRequest(index, timestamp), c) :
             c \in SUBSET RangeLt(docs[index], toISOString(timestamp)) }
    ELSE {}

\* a delete-by-query that empties the indices it was not sent to
AfterDeleteByQueryAll(ds, index, a) ==
  [i \in DOMAIN ds |-> IF i = index THEN a.docs ELSE {}]

\* the engine's documents after answer a to a delete-by-query on index:
\* the request names that one index
AfterDeleteByQuery(ds, index, a) == [ds EXCEPT ![index] = a.docs]

\* the delete-by-query calls behind the console lines of a retention call:
\* each answer is printed before the next call is made
RequestsOf(console) ==
  [k \in 1..Len(console) |->
     Request("deleteByQuery", console[k].index, console[k].out = "failed")]

\* the console line either function prints for one index
ConsoleLine(index, a) ==
  [index |-> index, out |-> IF a.failed THEN "failed" ELSE "deleted",
   deleted |-> a.deleted, version_conflicts |-> a.version_conflicts,
   conflicts |-> a.conflicts]

\* an applyRetentionPolicy that builds the cutoff anew for each index
applyRetentionPolicyTimestampFresh(timestamp, now, days) ==
  setDate(now, days)

\* timestamp.toISOString() in the loop of applyRetentionPolicy: the Date
\* built before the loop, whatever the clock reads now
applyRetentionPolicyTimestamp(timestamp, now, days) == timestamp

\* enforceRetention whose catch block only logs
enforceRetentionSwallows(failed) == "returned"

\* applyRetentionPolicy with the try around the loop: the first failure
\* ends it
applyRetentionPolicyAborts(i, n, failed) ==
  IF failed THEN 0 ELSE IF i < n THEN i + 1 ELSE 0

\* RetentionPolicy.enforceRetention: the catch block rethrows
enforceRetentionOutcome(failed) == IF failed THEN "threw" ELSE "returned"

\* applyRetentionPolicy that tries an index again when its deletion failed
applyRetentionPolicyRepeats(i, n, failed) ==
  IF failed THEN i ELSE IF i < n THEN i + 1 ELSE 0

\* applyRetentionPolicy: the catch block is inside the loop, so the loop
\* goes on to the next index; 0 means the loop is over
applyRetentionPolicyNext(i, n, failed) == IF i < n THEN i + 1 ELSE 0

\* Promise<void>: neither retention function hands its caller a value;
\* the result is the sequence of outcomes returned, none
enforceRetentionResult(console) == <<>>
applyRetentionPolicyResult(console) == <<>>

\* enforceRetention(index, days) directly follows a successful
\* enforceRetention of the same index and window: no other operation has
\* finished since.  "later" when the clock has advanced since that call,
\* "conflict" when that call met a version conflict, "same" otherwise
Repeat(index, days) ==
  IF /\ last.op = "enforceRetention" /\ last.out = "returned"
     /\ last.indices = <<index>> /\ last.days = days
    THEN IF last.callTime # clock THEN "later"
         ELSE IF last.console[1].conflicts THEN "conflict" ELSE "same"
    ELSE "no"

\* enforceRetention(index, days) up to its await
enforceRetention(index, days) ==
  /\ ret.op = "none"
  /\ \E w \in 1..Len(wrappers) : wrappers[w] \in instances
  /\ ret' = [op |-> "enforceRetention", indices |-> <<index>>, i |-> 1,
             days |-> days, given |-> TRUE, callTime |-> clock,
             timestamp |-> setDate(newDate, days),
             repeat |-> Repeat(index, days), console |-> <<>>]
  /\ last' = NoOp
  /\ UNCHANGED <<revision, elasticClient, clients, calls, wrappers,
                 instances, engineUp, setupSucceeded, failedUnset,
                 clock, docs, existing>>

\* the delete-by-query of enforceRetention settles and the call ends
enforceRetentionResumes ==
  /\ ret.op = "enforceRetention"
  /\ LET index == ret.indices[1] IN
     \E a \in EngineAnswers(index, ret.timestamp) :
       LET out == enforceRetentionOutcome(a.failed) IN
       /\ docs' = AfterDeleteByQuery(docs, index, a)
       /\ last' = [NoOp EXCEPT !.op = "enforceRetention", !.out = out,
                     !.err = IF out = "threw" THEN "RetentionFailed"
                                              ELSE "none",
                     !.indices = ret.indices, !.days = ret.days,
                     !.callTime = ret.callTime,
                     !.repeat = IF last = NoOp THEN ret.repeat ELSE "no",
                     !.console = <<ConsoleLine(index, a)>>,
                     !.result =
                       enforceRetentionResult(<<ConsoleLine(index, a)>>),
                     !.requests = RequestsOf(<<ConsoleLine(index, a)>>),
                     !.error =
                       IF out = "threw"
                         THEN NewError(ErrorMessage("RetentionFailed", index))
                         ELSE NoError]
  /\ ret' = NoRet
  /\ UNCHANGED <<revision, elasticClient, clients, calls, wrappers,
                 instances, engineUp, setupSucceeded, failedUnset, clock,
                 existing>>

\* applyRetentionPolicy(indices, retentionDays) up to its first await;
\* args is the window as the caller gave it
applyRetentionPolicy(indices, args) ==
  /\ ret.op = "none"
  /\ LET c == getClient(elasticClient)
         retentionDays == retentionDaysDefault(args) IN
       IF c.err # "none"
         THEN /\ last' = [Threw("applyRetentionPolicy", c.err)
                            EXCEPT !.indices = indices]
              /\ UNCHANGED ret
         ELSE IF indices = <<>>
           THEN /\ last' = [Returned("applyRetentionPolicy", NULL)
                              EXCEPT !.indices = indices]
                /\ UNCHANGED ret
           ELSE /\ ret' = [op |-> "applyRetentionPolicy",
                           indices |-> indices, i |-> 1,
                           days |-> retentionDays,
                           given |-> args # <<>>, callTime |-> clock,
                           timestamp |-> setDate(newDate, retentionDays),
                           repeat |-> "no", console |-> <<>>]
                /\ last' = NoOp
  /\ UNCHANGED <<revision, elasticClient, clients, calls, wrappers,
                 instances, engineUp, setupSucceeded, failedUnset, clock,
                 docs, existing>>

\* the delete-by-query of the current index settles; the loop goes on
applyRetentionPolicyResumes ==
  /\ ret.op = "applyRetentionPolicy"
  /\ LET index == ret.indices[ret.i] IN
     \E a \in EngineAnswers(index,
                applyRetentionPolicyTimestamp(ret.timestamp, newDate,
                                              ret.days)) :
       LET next == applyRetentionPolicyNext(ret.i, Len(ret.indices), a.failed)
           console == Append(ret.console, ConsoleLine(index, a))
       IN
       /\ docs' = AfterDeleteByQuery(docs, index, a)
       /\ IF next = 0
            THEN /\ ret' = NoRet
                 /\ last' = [Returned("applyRetentionPolicy", NULL)
                               EXCEPT !.indices = ret.indices,
                                      !.console = console,
                                      !.result =
                                        applyRetentionPolicyResult(console),
                                      !.requests = RequestsOf(console)]
            ELSE /\ ret' = [ret EXCEPT !.i = next, !.console = console]
                 /\ UNCHANGED last
  /\ UNCHANGED <<revision, elasticClient, clients, calls, wrappers,
                 instances, engineUp, setupSucceeded, failedUnset, clock,
                 existing>>

Init ==
  /\ revision \in {"plain", "docker"}
  /\ elasticClient = NULL
  /\ clients = <<>>
  /\ calls = [p \in Procs |-> IdleCall]
  /\ wrappers = <<>>
  /\ instances = {}
  /\ engineUp \in BOOLEAN
  /\ last = NoOp
  /\ setupSucceeded = FALSE
  /\ failedUnset = FALSE
  /\ clock = StartClock
  /\ docs = [i \in AllIndices |-> {}]
  /\ ret = NoRet
  /\ existing = {}

\* the setup module under concurrent callers
NextSetup ==
  \/ \E p \in Procs, c \in Configs : setupElasticsearch(p, c)
  \/ \E p \in Procs, c \in Configs : setupElasticsearchDocker(p, c)
  \/ \E p \in Procs : isElasticsearchRunning(p)
  \/ \E p \in Procs : ensureDocker(p)
  \/ \E p \in Procs : startElasticsearch(p)
  \/ stopElasticsearch
  \/ GetClient

SpecSetup == Init /\ [][NextSetup]_vars

\* every way of obtaining an engine client, one setup caller at a time
NextClients ==
  \/ \E c \in Configs : setupElasticsearch(1, c)
  \/ \E c \in Configs : setupElasticsearchDocker(1, c)
  \/ isElasticsearchRunning(1)
  \/ ensureDocker(1)
  \/ startElasticsearch(1)
  \/ GetClient
  \/ \E n \in Nodes, o \in WrapperOptions : ElasticClient(n, o)
  \/ Logs
  \/ \E w \in 1..MaxWrappers : RetentionPolicy(w)

SpecClients == Init /\ [][NextClients]_vars

\* every kind of operation on the handle, one caller at a time, the
\* engine holding no documents
NextLifetime ==
  \/ \E c \in Configs : setupElasticsearch(1, c)
  \/ \E c \in Configs : setupElasticsearchDocker(1, c)
  \/ isElasticsearchRunning(1)
  \/ ensureDocker(1)
  \/ startElasticsearch(1)
  \/ stopElasticsearch
  \/ GetClient
  \/ \E l \in IndexLists, d \in DaysArgs : applyRetentionPolicy(l, d)
  \/ applyRetentionPolicyResumes

SpecLifetime == Init /\ [][NextLifetime]_vars

\* the contents an engine can hold when the process starts: up to MaxDocs
\* documents, numbered in the order of their index and timestamp
DocKey(d) == (IF d.index = "A" THEN 0 ELSE 1) * (StartClock + 1) + d.t
StartContents ==
  UNION { { f \in [1..k -> [index : Indices, t : StoredTimes]] :
              \A n \in 1..(k - 1) : DocKey(f[n]) <= DocKey(f[n + 1]) } :
          k \in 0..MaxDocs }
Stored(f) ==
  [i \in AllIndices |->
     { Document(n, PlainBody(f[n].t)) :
         n \in {m \in DOMAIN f : f[m].index = i} }]

\* a process that has set its clients up: setupElasticsearch has returned
\* (or was never called), one ElasticClient wrapper exists, and a Logs and
\* a RetentionPolicy object have been constructed from them; the engine
\* holds documents written earlier
InitRetention ==
  /\ revision = "plain"
  /\ engineUp = TRUE
  /\ calls = [p \in Procs |-> IdleCall]
  /\ last = NoOp
  /\ failedUnset = FALSE
  /\ \/ /\ elasticClient = 1
        /\ clients = <<ClientOptions(NoConfig),
                       WrapperClientOptions("es:9200", NoWrapperOptions)>>
        /\ wrappers = <<2>>
        /\ instances = {1, 2}
        /\ setupSucceeded = TRUE
     \/ /\ elasticClient = NULL
        /\ clients = <<WrapperClientOptions("es:9200", NoWrapperOptions)>>
        /\ wrappers = <<1>>
        /\ instances = {1}
        /\ setupSucceeded = FALSE
  /\ clock = StartClock
  /\ \E f \in StartContents : docs = Stored(f)
  /\ ret = NoRet
  /\ existing = {DefaultIndex(i) : i \in Indices}

\* single-index retention next to a writer and the clock
NextEnforce ==
  \/ Tick
  \/ \E i \in Indices : log(i, "info", "started", NoMetadata)
  \/ \E i \in Indices, d \in Days : enforceRetention(i, d)
  \/ enforceRetentionResumes

SpecEnforce == InitRetention /\ [][NextEnforce]_vars

\* multi-index retention over the stored documents, and the clock
NextApply ==
  \/ Tick
  \/ \E l \in IndexLists, d \in DaysArgs : applyRetentionPolicy(l, d)
  \/ applyRetentionPolicyResumes

SpecApply == InitRetention /\ [][NextApply]_vars

\* multi-index retention with the default window, where every
\* delete-by-query that is awaited settles in the end: the engine's answer
\* returns or fails
NextApplyFair ==
  \/ \E l \in IndexLists : applyRetentionPolicy(l, <<>>)
  \/ applyRetentionPolicyResumes

SpecApplyFair ==
  InitRetention /\ [][NextApplyFair]_vars
    /\ WF_vars(applyRetentionPolicyResumes)

\* both retention functions over the stored documents, with the clock
\* standing still and nothing else writing
NextRetention ==
  \/ \E i \in Indices, d \in Days : enforceRetention(i, d)
  \/ enforceRetentionResumes
  \/ \E l \in IndexLists, d \in DaysArgs : applyRetentionPolicy(l, d)
  \/ applyRetentionPolicyResumes

SpecRetention == InitRetention /\ [][NextRetention]_vars

\* a process that has set its clients up, on an engine whose indices are
\* still empty
InitOps ==
  /\ revision = "plain"
  /\ engineUp = TRUE
  /\ calls = [p \in Procs |-> IdleCall]
  /\ last = NoOp
  /\ failedUnset = FALSE
  /\ elasticClient = 1
  /\ clients = <<ClientOptions(NoConfig),
                 WrapperClientOptions("es:9200", NoWrapperOptions)>>
  /\ wrappers = <<2>>
  /\ instances = {1, 2}
  /\ setupSucceeded = TRUE
  /\ clock = StartClock
  /\ docs = [i \in AllIndices |-> {}]
  /\ ret = NoRet
  /\ existing = {DefaultIndex(i) : i \in Indices}

\* one caller that awaits each operation before it starts the next: the
\* document, index, health and logging operations and retention calls
\* with a window of no days; documents are added stamped long ago or now
DocIds == 1..MaxDocs
\* no retention call is in flight
Idle == ret.op = "none"

\* new Logs(index): the index the one Logs object is bound to, which is
\* also the index the caller hands to IndexManager and Query
LogsIndex == "A"

NextOps ==
  \/ Idle /\ log(LogsIndex, "info", "started", NoMetadata)
  \/ Idle /\ \E t \in {0, StartClock} : addDocument(LogsIndex, t)
  \/ Idle /\ search(LogsIndex)
  \/ Idle /\ count(LogsIndex, MatchAll)
  \/ Idle /\ \E id \in DocIds : updateDocument(LogsIndex, id)
  \/ Idle /\ \E id \in DocIds : deleteDocument(LogsIndex, id)
  \/ Idle /\ indexExists(LogsIndex)
  \/ Idle /\ createIndex(LogsIndex)
  \/ Idle /\ deleteIndex(LogsIndex)
  \/ Idle /\ \E o \in BulkOperations : bulk(LogsIndex, o)
  \/ Idle /\ \E e \in EnvironmentKeys : createOptimizedIndex(LogsIndex, e)
  \/ Idle /\ IndexManagerDeleteIndex(LogsIndex)
  \/ Idle /\ QuerySearch(LogsIndex)
  \/ Idle /\ getHealth
  \/ Idle /\ validateApiKey
  \/ Idle /\ logHealthCheck
  \/ Idle /\ logRetentionRun
  \/ \E i \in Indices : enforceRetention(i, 0)
  \/ enforceRetentionResumes
  \/ \E l \in IndexLists : applyRetentionPolicy(l, <<0>>)
  \/ applyRetentionPolicyResumes

SpecOps == InitOps /\ [][NextOps]_vars

\* one caller of a Logs object that logs records, adds, searches, counts
\* and deletes documents and deletes and creates the index, while the
\* clock advances
NextDocs ==
  \/ Tick
  \/ \E e \in Entries : log(LogsIndex, e.level, e.message, e.metadata)
  \/ \E t \in {0, StartClock} : addDocument(LogsIndex, t)
  \/ search(LogsIndex)
  \/ \E q \in Queries : count(LogsIndex, q)
  \/ \E id \in DocIds : deleteDocument(LogsIndex, id)
  \/ \E o \in BulkOperations : bulk(LogsIndex, o)
  \/ deleteIndex(LogsIndex)
  \/ createIndex(LogsIndex)

SpecDocs == InitOps /\ [][NextDocs]_vars

\* ------------------------------------------------------------ properties
SetupEnded == last.op = "setupElasticsearch"
Cutoff(callTime, days) == callTime - days * DayTicks
Instant(d) == ParseDate(d.timestamp)

\* C1: as long as no setupElasticsearch call has succeeded, the handle is
\* unset, no client has been constructed, and every getClient() has thrown
\* the "not initialized" error.
GetClientFailsBeforeSetup ==
  ~setupSucceeded =>
    /\ elasticClient = NULL
    /\ clients = <<>>
    /\ last.op = "getClient" =>
         (last.out = "threw" /\ last.err = "NotInitialized"
          /\ last.ret = NULL)

GetClientFailedTwiceWitness ==
  /\ ~setupSucceeded /\ failedUnset
  /\ last.op = "getClient" /\ last.err = "NotInitialized"

\* C2: a setupElasticsearch call made after some call has succeeded
\* returns the handle of the first successful call and constructs nothing.
LaterSetupReturnsFirstHandle ==
  (SetupEnded /\ last.later) =>
    (last.out = "returned" /\ last.ret = 1 /\ elasticClient = 1
     /\ Len(clients) = 1)

\* C3: the step in which a setupElasticsearch call throws changes neither
\* the handle nor the clients constructed (an unset handle stays unset and
\* getClient keeps failing); client construction itself throws only on a
\* malformed URL, whatever failed before, and a call that returns has
\* installed a handle.
FailedSetupKeepsNothing ==
  [][ (SetupEnded' /\ last' # last) =>
        IF last'.out = "threw"
          THEN /\ elasticClient' = elasticClient
               /\ clients' = clients
               /\ elasticClient = NULL =>
                    getClient(elasticClient').err = "NotInitialized"
               /\ last'.err = "InitializationFailed" =>
                    MalformedURL(last'.config.url)
          ELSE /\ elasticClient' # NULL
               /\ elasticClient' = last'.ret ]_vars

RetryAfterFailureWitness ==
  /\ failedUnset
  /\ SetupEnded /\ last.out = "returned" /\ ~last.later
  /\ elasticClient = last.ret /\ elasticClient # NULL

\* C4: however the setupElasticsearch calls interleave, at most one client
\* is ever constructed, and a call that returns returns that one client,
\* which is the handle.
OneClientForAllCallers ==
  /\ Len(clients) <= 1
  /\ (SetupEnded /\ last.out = "returned") =>
       (Len(clients) = 1 /\ last.ret = 1 /\ elasticClient = 1)

\* a call made while the handle was unset, and suspended in start-up
\* since, returns the client another caller's configuration created
RacingCallersWitness ==
  /\ SetupEnded /\ last.out = "returned" /\ ~last.later
  /\ ~last.config.useManagedInstance /\ revision = "docker"
  /\ clients[last.ret] # ClientOptions(last.config)

\* C5: at most one engine client is ever constructed.
AtMostOneClient == Len(clients) <= 1

\* C6: once the handle is set, no step changes or clears it, and getClient
\* returns that same handle after the step.
HandleNeverChanges ==
  [][ elasticClient # NULL =>
        /\ elasticClient' = elasticClient
        /\ getClient(elasticClient').ret = elasticClient ]_vars

HandleSurvivesWitness ==
  /\ elasticClient # NULL
  /\ last.op = "applyRetentionPolicy"
  /\ \E k \in 1..Len(last.console) : last.console[k].out = "failed"
  /\ ~engineUp

\* C7: a setupElasticsearch call given a malformed URL, an endpoint nothing
\* answers on, or a username without a password (or the reverse) throws
\* the "initialization failed" error.
UnpairedCredentials(config) == config.username # config.password
BadConfigurationFails ==
  (SetupEnded /\ (\/ MalformedURL(last.config.url)
                  \/ UnpairedCredentials(last.config)
                  \/ (revision = "plain" /\ ~engineUp))) =>
    (last.out = "threw" /\ last.err = "InitializationFailed")

\* C8: the step in which a delete-by-query of a retention call succeeds
\* keeps every record of the index whose timestamp is at or after the
\* call time minus the window, and, when no version conflict was met,
\* removes every record whose timestamp is before it.
DeleteSucceeds ==
  /\ ret.op # "none"
  /\ LET console == IF ret'.op = "none" THEN last'.console ELSE ret'.console
     IN /\ Len(console) = Len(ret.console) + 1
        /\ console[Len(console)].out = "deleted"

DeleteMetConflict ==
  LET console == IF ret'.op = "none" THEN last'.console ELSE ret'.console
  IN console[Len(console)].conflicts

RetentionDeletesExactlyOlder ==
  [][ DeleteSucceeds =>
        LET index == ret.indices[ret.i]
            cutoff == Cutoff(ret.callTime, ret.days)
        IN \A d \in docs[index] :
             /\ Instant(d) >= cutoff => d \in docs'[index]
             /\ (Instant(d) < cutoff /\ ~DeleteMetConflict) =>
                  d \notin docs'[index] ]_vars

\* a run with a window of a day has deleted a record and kept the record
\* stamped exactly at the cutoff
KeptAtCutoffWitness ==
  /\ last.op = "enforceRetention" /\ last.out = "returned"
  /\ last.days >= 1
  /\ last.console[1].deleted >= 1 /\ ~last.console[1].conflicts
  /\ \E d \in docs[last.indices[1]] :
       Instant(d) = Cutoff(last.callTime, last.days)

\* C9 as stated: an enforceRetention that directly follows a successful
\* enforceRetention of the same index and window deletes nothing.
SecondRunDeletesNothing ==
  (last.op = "enforceRetention" /\ last.out = "returned"
   /\ last.repeat # "no") =>
    last.console[1].deleted = 0

\* C9 as amended: it deletes nothing when the first call met no version
\* conflict and both calls read the same clock value.
SecondRunSameCutoffDeletesNothing ==
  (last.op = "enforceRetention" /\ last.out = "returned"
   /\ last.repeat = "same") =>
    last.console[1].deleted = 0

SecondRunWitness ==
  /\ last.op = "enforceRetention" /\ last.out = "returned"
  /\ last.repeat = "same"
  /\ docs[last.indices[1]] # {}

\* C10: applyRetentionPolicy issues a delete-by-query for every entry of
\* its list, in order, whatever the earlier ones did, and returns normally.
ApplyLines(console, indices) ==
  \A k \in 1..Len(console) : console[k].index = indices[k]
ApplyContinuesPastFailure ==
  /\ ret.op = "applyRetentionPolicy" =>
       (Len(ret.console) = ret.i - 1 /\ ApplyLines(ret.console, ret.indices))
  /\ (last.op = "applyRetentionPolicy" /\ last.err # "NotInitialized") =>
       /\ last.out = "returned"
       /\ Len(last.console) = Len(last.indices)
       /\ ApplyLines(last.console, last.indices)

ApplyPastFailureWitness ==
  /\ last.op = "applyRetentionPolicy" /\ last.out = "returned"
  /\ Len(last.indices) = 2
  /\ Len(last.console) = 2
  /\ last.console[1].out = "failed"
  /\ last.console[2].out = "deleted" /\ last.console[2].deleted >= 1

\* C11 as stated: when applyRetentionPolicy over two indices fails on the
\* first and succeeds on the second, the result handed to the caller holds
\* the first's failure and the second's success with its deleted count.
ApplyReportsEachOutcome ==
  (/\ last.op = "applyRetentionPolicy" /\ last.out = "returned"
   /\ Len(last.indices) = 2
   /\ last.console[1].out = "failed" /\ last.console[2].out = "deleted") =>
    (/\ Len(last.result) = 2
     /\ last.result[1].out = "failed"
     /\ last.result[2] = last.console[2])

\* C12 as stated: an enforceRetention that returns hands its caller the
\* number of records it deleted, 0 included.
EnforceReportsDeletedCount ==
  (last.op = "enforceRetention" /\ last.out = "returned") =>
    (/\ Len(last.result) = 1
     /\ last.result[1].deleted = last.console[1].deleted)

\* C13: the step in which the delete-by-query of enforceRetention meets a
\* version conflict ends the call normally: the records removed are older
\* than the cutoff, they are all the older records but the conflicting
\* ones, and their number is the count on the console.
ConflictsDoNotAbort ==
  [][ (/\ ret.op = "enforceRetention" /\ ret'.op = "none"
       /\ last'.console[1].conflicts) =>
        LET index == ret.indices[1]
            gone == docs[index] \ docs'[index]
            older == {d \in docs[index] :
                        Instant(d) < Cutoff(ret.callTime, ret.days)}
        IN /\ last'.out = "returned"
           /\ last'.console[1].out = "deleted"
           /\ gone \subseteq older
           /\ Cardinality(gone) = last'.console[1].deleted
           /\ Cardinality(gone) + last'.console[1].version_conflicts
                = Cardinality(older) ]_vars

\* a run has deleted a record and skipped another on a version conflict
PartialDeleteWitness ==
  /\ last.op = "enforceRetention" /\ last.out = "returned"
  /\ last.console[1].conflicts
  /\ last.console[1].deleted >= 1
  /\ last.console[1].version_conflicts >= 1

\* C14: the step in which enforceRetention is called takes its cutoff from
\* the clock of that step: the clock value minus the window.
CutoffFromClockAtCall ==
  [][ (ret.op = "none" /\ ret'.op = "enforceRetention") =>
        /\ ret'.callTime = clock
        /\ ret'.timestamp = clock - ret'.days * DayTicks ]_vars

\* a second call with the same window, made after the clock has advanced,
\* has deleted a record
LaterCallWitness ==
  /\ last.op = "enforceRetention" /\ last.out = "returned"
  /\ last.repeat = "later" /\ last.callTime > StartClock
  /\ last.console[1].deleted >= 1

\* C15 as stated: once enforceRetention(index, 0) has returned, the index
\* holds no record stamped before the call time.
ZeroWindowDeletesAllEarlier ==
  (/\ last.op = "enforceRetention" /\ last.out = "returned"
   /\ last.days = 0) =>
    \A d \in docs[last.indices[1]] : Instant(d) >= last.callTime

\* C15 as amended: the step in which the delete-by-query of
\* enforceRetention(index, 0) succeeds keeps every record stamped at or
\* after the call time and, when no version conflict was met, removes
\* every record stamped before it.
ZeroWindowDeletesEarlierUnlessConflict ==
  [][ (/\ ret.op = "enforceRetention" /\ ret.days = 0 /\ ret'.op = "none"
       /\ last'.out = "returned") =>
        LET index == ret.indices[1] IN
        /\ \A d \in docs[index] :
             Instant(d) >= ret.callTime => d \in docs'[index]
        /\ ~last'.console[1].conflicts =>
             \A d \in docs'[index] : Instant(d) >= ret.callTime ]_vars

\* a run with a window of no days has deleted a record and kept the
\* record stamped at the call time
ZeroWindowWitness ==
  /\ last.op = "enforceRetention" /\ last.out = "returned"
  /\ last.days = 0 /\ ~last.console[1].conflicts
  /\ last.console[1].deleted >= 1
  /\ \E d \in docs[last.indices[1]] : Instant(d) = last.callTime

NegativeWindowIssuesNoDelete ==
  ret.op # "none" => ret.days >= 0

\* C18 as stated: an operation other than applyRetentionPolicy whose
\* engine call failed has thrown.
EngineCallFailed == \E k \in 1..Len(last.requests) : last.requests[k].failed
FailedEngineCallIsRaised ==
  (last.op \notin {"none", "applyRetentionPolicy"} /\ EngineCallFailed) =>
    last.out = "threw"

\* C19 as stated: the error a document or index operation of Logs throws
\* after its engine call failed names the index or the document it was
\* about and carries the engine's error as its cause.
DocumentOperations ==
  {"log", "search", "count", "addDocument", "updateDocument",
   "deleteDocument", "indexExists", "createIndex", "deleteIndex", "bulk"}
Targets == Indices \cup {ToString(id) : id \in DocIds}
FailureNamesTargetAndCause ==
  (last.op \in DocumentOperations /\ last.out = "threw") =>
    /\ \E k \in 1..Len(last.error.message) :
         last.error.message[k] \in Targets
    /\ last.error.cause # "none"

\* C20: an operation that has ended has issued at most one engine call,
\* and applyRetentionPolicy at most one for each entry of its list, in the
\* order of the list; while it runs, every call but the one in flight has
\* been answered.
NoRetries ==
  /\ last.op \notin {"none", "applyRetentionPolicy"} =>
       Len(last.requests) <= 1
  /\ last.op = "applyRetentionPolicy" =>
       /\ Len(last.requests) <= Len(last.indices)
       /\ \A k \in 1..Len(last.requests) :
            last.requests[k].index = last.indices[k]
  /\ ret.op # "none" =>
       /\ ret.i <= Len(ret.indices)
       /\ Len(ret.console) = ret.i - 1

\* an applyRetentionPolicy over two indices whose first delete-by-query
\* failed has ended with two calls issued
NoRetryWitness ==
  /\ last.op = "applyRetentionPolicy"
  /\ Len(last.indices) = 2 /\ Len(last.requests) = 2
  /\ last.requests[1].failed
\* the preset of each valid environment, as the configuration lists them
Preset(environment) ==
  CASE environment = "development" -> <<1, 0>>
    [] environment = "staging"     -> <<2, 1>>
    [] environment = "production"  -> <<3, 2>>
    [] OTHER -> <<Undefined, Undefined>>

\* C21: createOptimizedIndex with an environment key other than
\* development, staging, production fails with an error that lists the
\* valid keys, sends nothing to the engine and creates no index; with a
\* valid key a successful call created the index with that preset's shard
\* and replica counts
InvalidEnvironmentRejected ==
  last.op = "createOptimizedIndex" =>
    IF last.environment \notin Environments
      THEN /\ last.out = "threw"
           /\ last.err = "InvalidEnvironment"
           /\ last.requests = <<>>
           /\ last.error.message[Len(last.error.message)]
                = "development, staging, production"
      ELSE last.out = "returned" =>
             Index(last.indices[1], Preset(last.environment)[1],
                   Preset(last.environment)[2]) \in existing

\* the operations that make the engine create an index, and those that
\* make it delete one
IndexCreators == {"createIndex", "createOptimizedIndex", "log",
                  "addDocument", "logHealthCheck", "logRetentionRun"}
IndexDeleters == {"deleteIndex", "IndexManager.deleteIndex"}

\* the latest operation succeeded, is one of ops and addressed index
Succeeded(l, ops, index) ==
  l.op \in ops /\ l.out = "returned" /\ l.indices = <<index>>

Ids(ds) == {d.id : d \in ds}

LogAddsOneStampedRecord ==
  [][/\ Succeeded(last', {"log"}, LogsIndex) /\ last' # last =>
          /\ \E e \in Entries :
               docs'[LogsIndex] = docs[LogsIndex] \cup
                 {[id |-> last'.response.id, level |-> e.level,
                   message |-> e.message, metadata |-> e.metadata,
                   timestamp |-> toISOString(clock)]}
          /\ last'.response.id \notin Ids(docs[LogsIndex])
          /\ Cardinality(docs'[LogsIndex])
               = Cardinality(docs[LogsIndex]) + 1
          /\ \A i \in AllIndices \ {LogsIndex} : docs'[i] = docs[i]
     /\ Succeeded(last', {"count"}, LogsIndex) /\ last' # last
          /\ last'.query # MatchAll =>
          /\ last'.response.count
               = Cardinality({d \in docs'[LogsIndex] :
                                d.level = last'.query})
          /\ (\E d \in docs'[LogsIndex] : d.level = last'.query) =>
               last'.response.count >= 1]_vars

\* an error record with its metadata was logged after the clock had
\* advanced, and was counted
LoggedErrorCountedWitness ==
  /\ Succeeded(last, {"count"}, LogsIndex)
  /\ last.query = "error"
  /\ last.response.count >= 1
  /\ clock > StartClock
  /\ \E d \in docs[LogsIndex] :
       /\ d.level = "error" /\ d.message = "Failed to process request"
       /\ d.metadata = "{requestId}"
       /\ ParseDate(d.timestamp) = clock

\* C25: enforceRetention throws exactly when its delete-by-query failed,
\* and the error it throws names the index; applyRetentionPolicy, once it
\* has the client, returns normally and throws nothing, also when the
\* delete-by-query failed on every index of its list
EnforceRaisesApplySwallows ==
  /\ last.op = "enforceRetention" =>
       /\ last.out = "threw" <=> EngineCallFailed
       /\ last.out = "threw" =>
            last.error.message
              = <<"Retention policy enforcement failed for index \"",
                  last.indices[1], "\".">>
       /\ last.out = "returned" => last.error = NoError
  /\ last.op = "applyRetentionPolicy" /\ last.err # "NotInitialized" =>
       /\ last.out = "returned"
       /\ last.error = NoError
       /\ Len(last.requests) = Len(last.indices)

\* applyRetentionPolicy has returned although the deletion failed on each
\* of its two indices
ApplyAllFailedWitness ==
  /\ last.op = "applyRetentionPolicy"
  /\ last.out = "returned"
  /\ Len(last.indices) = 2
  /\ \A k \in 1..Len(last.requests) : last.requests[k].failed

\* C26: in the Docker-aware revision a setupElasticsearch call creates a
\* client only once its start-up phase is over: in managed mode it neither
\* probes nor starts the engine; otherwise it has probed, and it has
\* started the engine exactly when the probe found it not running; a call
\* whose start failed throws and creates no client
ClientOnlyAfterStartup ==
  [][/\ revision = "docker" /\ last'.op = "setupElasticsearch"
          /\ last' # last =>
          /\ last'.config.useManagedInstance =>
               last'.startup = Startup("none", "none")
          /\ ~last'.config.useManagedInstance =>
               /\ last'.startup.probe \in {"running", "notRunning"}
               /\ last'.startup.start # "none"
                    <=> last'.startup.probe = "notRunning"
          /\ last'.startup.start = "failed" =>
               /\ last'.out = "threw"
               /\ clients' = clients
               /\ elasticClient' = elasticClient
     /\ revision = "docker" /\ clients' # clients
          /\ Len(wrappers') = Len(wrappers) =>
          /\ last'.op = "setupElasticsearch" /\ last'.out = "returned"
          /\ \/ last'.config.useManagedInstance
             \/ last'.startup.probe = "running"
             \/ last'.startup.start = "started"]_vars

\* a call has created the client after its probe found no engine and its
\* start succeeded
ClientAfterStartWitness ==
  /\ revision = "docker"
  /\ last.op = "setupElasticsearch" /\ last.out = "returned"
  /\ last.startup = Startup("notRunning", "started")
  /\ elasticClient # NULL
  /\ ~last.later

\* C27: every delete-by-query of one applyRetentionPolicy call uses the
\* cutoff of the moment of the call, however far the clock has advanced
\* since: it deletes no record at or after that cutoff and, when it
\* succeeds without conflict, every record before it; the cutoff the
\* call carries does not change from one index to the next
OneCutoffPerApply ==
  [][ret.op = "applyRetentionPolicy" /\ ret' # ret =>
       LET index == ret.indices[ret.i]
           console == IF ret'.op = "none" THEN last'.console
                                          ELSE ret'.console
           line == console[Len(console)]
           cutoff == Cutoff(ret.callTime, ret.days)
       IN /\ \A d \in docs[index] \ docs'[index] : Instant(d) < cutoff
          /\ line.out = "deleted" /\ ~line.conflicts =>
               \A d \in docs'[index] : Instant(d) >= cutoff
          /\ ret'.op = "applyRetentionPolicy" =>
               /\ ret'.timestamp = ret.timestamp
               /\ ret'.callTime = ret.callTime
               /\ ret'.timestamp = cutoff]_vars

\* the clock has advanced while the first index was processed, and the
\* second index holds a record that lies before a cutoff taken now but
\* not before the cutoff of the call
ClockAdvancedDuringApplyWitness ==
  /\ ret.op = "applyRetentionPolicy"
  /\ ret.i = 2
  /\ ret.console[1].out = "deleted" /\ ret.console[1].deleted >= 1
  /\ clock > ret.callTime
  /\ \E d \in docs[ret.indices[2]] :
       /\ Instant(d) >= Cutoff(ret.callTime, ret.days)
       /\ Instant(d) < Cutoff(clock, ret.days)

\* C28: applyRetentionPolicy called while the handle is unset throws the
\* "not initialized" error of getClient to its caller before the loop: no
\* call is left in flight, no delete-by-query is issued and no record is
\* deleted
UnsetHandleStopsApply ==
  [][(/\ elasticClient = NULL
      /\ last' # last \/ ret' # ret
      /\ last'.op = "applyRetentionPolicy"
           \/ ret'.op = "applyRetentionPolicy") =>
       /\ last'.op = "applyRetentionPolicy"
       /\ last'.out = "threw"
       /\ last'.err = "NotInitialized"
       /\ last'.requests = <<>>
       /\ last'.console = <<>>
       /\ ret.op = "none" /\ ret' = ret
       /\ docs' = docs]_vars

\* the call has thrown over two indices of which the first holds a record
\* older than any cutoff
UnsetHandleApplyWitness ==
  /\ elasticClient = NULL
  /\ last.op = "applyRetentionPolicy"
  /\ last.out = "threw" /\ last.err = "NotInitialized"
  /\ Len(last.indices) = 2
  /\ \E d \in docs[last.indices[1]] : Instant(d) = 0

\* C29: a step of enforceRetention or applyRetentionPolicy, whether the
\* deletion succeeds or fails, leaves the set of existing indices, the
\* clients and the process-wide handle as they were, adds no record
\* anywhere and changes the records of no index but the one of the
\* call's list that it is working on
RetentionFrame ==
  [][ret' # ret =>
       /\ existing' = existing
       /\ elasticClient' = elasticClient
       /\ clients' = clients
       /\ \A i \in AllIndices :
            /\ docs'[i] \subseteq docs[i]
            /\ docs'[i] # docs[i] =>
                 /\ ret.op # "none"
                 /\ i = ret.indices[ret.i]
                 /\ \E k \in 1..Len(ret.indices) : ret.indices[k] = i]_vars

\* a retention call on one index has deleted a record there while another
\* index still holds a record as old
RetentionFrameWitness ==
  /\ last.op \in {"enforceRetention", "applyRetentionPolicy"}
  /\ last.out = "returned"
  /\ \E k \in 1..Len(last.console) : last.console[k].deleted >= 1
  /\ \E i \in AllIndices :
       /\ \A k \in 1..Len(last.indices) : last.indices[k] # i
       /\ \E d \in docs[i] : Instant(d) = 0

\* the call over list l is in flight
Applying(l) == ret.op = "applyRetentionPolicy" /\ ret.indices = l

\* the call over list l has returned after one delete-by-query for each
\* entry of l, in the order of l
Applied(l) ==
  /\ ret.op = "none"
  /\ last.op = "applyRetentionPolicy" /\ last.out = "returned"
  /\ last.indices = l
  /\ Len(last.requests) = Len(l)
  /\ \A k \in 1..Len(l) :
       /\ last.requests[k].api = "deleteByQuery"
       /\ last.requests[k].index = l[k]

\* C30: when every delete-by-query that is awaited settles in the end,
\* applyRetentionPolicy over any list completes, having made exactly one
\* delete-by-query for each entry in list order; each settled call adds
\* one outcome, and the call for the next entry is made only then
ApplyTerminates ==
  /\ \A l \in IndexLists : Applying(l) ~> Applied(l)
  /\ [][ret.op = "applyRetentionPolicy" /\ ret' # ret =>
          LET console == IF ret'.op = "none" THEN last'.console
                                             ELSE ret'.console
          IN /\ Len(ret.console) = ret.i - 1
             /\ console = Append(ret.console, console[Len(console)])
             /\ console[Len(console)].index = ret.indices[ret.i]
             /\ ret'.op = "applyRetentionPolicy" =>
                  ret'.i = ret.i + 1 /\ ret'.indices = ret.indices
             /\ ret'.op = "none" => ret.i = Len(ret.indices)]_vars

\* a call over two indices has completed although the first deletion
\* failed
ApplyCompletedWitness ==
  /\ \E l \in IndexLists : Len(l) = 2 /\ l[1] # l[2] /\ Applied(l)
  /\ last.requests[1].failed
  /\ ~last.requests[2].failed

====
